---- MODULE Spec2Model ----
(***************************************************************************)
(* A model of project_r: the metadata controller with its list of disabled *)
(* nodes (src/project_r/metadata.py) and the PersistentDict key-value      *)
(* surface (src/project_r/persistent_dict.py), and the readers-writer lock *)
(* (src/project_r/rwlock.py).                                              *)
(*                                                                         *)
(* Python objects live in a heap: a _ValueNode is a record in the sequence *)
(* heap and a reference to it is its position; None is 0.  List positions  *)
(* are Python's (0-based); element i of a list l is l[i + 1].              *)
(***************************************************************************)
EXTENDS Integers, Sequences, FiniteSets, TLC

\* ------------------------------------------------------------------ bounds
MaxNodes == 3        \* _ValueNode objects ever allocated
MaxValueSize == 1    \* value_size arguments are drawn from 0..MaxValueSize
NumKeys == 2         \* keys are drawn from 1..NumKeys
NumTasks == 1        \* coroutines using one PersistentDict
NumValues == 2       \* stored values are drawn from 1..NumValues

NumLockTasks == 3    \* coroutines sharing one RWLock

MaxStreamLen == 3    \* characters of a stream handed to a loader

ChainLen == 5        \* nodes of the chain the list is exercised on
MaxRegion == 1       \* end_index - start_index of those nodes: 0..MaxRegion

Keys == 1 .. NumKeys
Tasks == 1 .. NumTasks
LockTasks == 1 .. NumLockTasks
Values == 1 .. NumValues
NoValue == 0         \* Python None as a value
Sizes == 0 .. MaxValueSize

None == 0            \* Python None as a node reference
NoneIdx == -1        \* Python None where a list position is expected

VARIABLES
    heap,               \* the _ValueNode objects, by reference
    disabled_nodes,     \* _DisabledNodesList.disabled_nodes: node references
    absorbed,           \* ghost: nodes combined into another node by insert
    file_size,          \* _Metadata.file_size
    key_to_node,        \* _Metadata.key_to_node
    metadata_last_node, \* _Metadata.last_node
    last_node,          \* MetadataController.last_node (None until assigned)
    outcome,            \* the last call: its operation and the error it raised
    pd,                 \* the PersistentDict object: _data, _file, locks, _b
    tasks,              \* the coroutines calling get/set/remove on it
    hist                \* ghost: the last write, the keys ever set, close()

mdvars == <<heap, disabled_nodes, absorbed, file_size, key_to_node,
            metadata_last_node, last_node, outcome>>
pdvars == <<pd, tasks, hist>>
vars == <<heap, disabled_nodes, absorbed, file_size, key_to_node,
          metadata_last_node, last_node, outcome, pd, tasks, hist>>

\* ------------------------------------------------------------- _ValueNode
ValueNode(s, e, v, p, n, en) ==
    [start_index |-> s, end_index |-> e, value_size |-> v,
     previous_node |-> p, next_node |-> n, is_enabled |-> en]

\* start_index == 0 != end_index is Python's chained comparison
available_space(node) ==
    node.end_index - node.start_index
        + (IF node.start_index = 0 /\ 0 # node.end_index THEN 1 ELSE 0)

\* The dataclass-generated __eq__: field tuples compared in order, each pair
\* of fields by identity first and then by ==.  fuel bounds the recursion
\* (links are compared by value when they are not the same object).
RECURSIVE NodeEq(_, _, _, _)
NodeEq(h, a, b, fuel) ==
    IF a = b THEN TRUE
    ELSE IF a = None \/ b = None \/ fuel = 0 THEN FALSE
    ELSE /\ h[a].start_index = h[b].start_index
         /\ h[a].end_index = h[b].end_index
         /\ h[a].value_size = h[b].value_size
         /\ NodeEq(h, h[a].previous_node, h[b].previous_node, fuel - 1)
         /\ NodeEq(h, h[a].next_node, h[b].next_node, fuel - 1)
         /\ h[a].is_enabled = h[b].is_enabled

\* ----------------------------------------------------- _DisabledNodesList
RemoveAt(l, i) == [j \in 1 .. (Len(l) - 1) |-> IF j <= i THEN l[j] ELSE l[j + 1]]
InsertAt(l, i, x) ==
    [j \in 1 .. (Len(l) + 1) |->
        IF j <= i THEN l[j] ELSE IF j = i + 1 THEN x ELSE l[j - 1]]

\* bisect.bisect_left(a, x, key=...) with lo = 0, hi = len(a)
RECURSIVE bisect_left(_, _, _, _, _)
bisect_left(h, l, x, lo, hi) ==
    IF lo < hi
    THEN LET mid == (lo + hi) \div 2
         IN IF available_space(h[l[mid + 1]]) < x
            THEN bisect_left(h, l, x, mid + 1, hi)
            ELSE bisect_left(h, l, x, lo, mid)
    ELSE lo

_bisect(h, l, min_size) == bisect_left(h, l, min_size, 0, Len(l))

\* find_node returns (i, disabled_nodes[i]) or None; the model returns i
\* faulty variant: worst fit, the largest listed node when it is large enough
find_node_largest(h, l, min_size) ==
    IF l # <<>> /\ available_space(h[l[Len(l)]]) >= min_size
    THEN Len(l) - 1
    ELSE NoneIdx

find_node(h, l, min_size) ==
    LET optimal_node_index == _bisect(h, l, min_size)
    IN IF optimal_node_index >= Len(l) THEN NoneIdx ELSE optimal_node_index

\* the while loop of _index, entered with found_node = disabled_nodes[i]
RECURSIVE _index_loop(_, _, _, _)
_index_loop(h, l, node, i) ==
    LET found_node == l[i + 1]
    IN IF /\ ~NodeEq(h, found_node, node, Len(h))
          /\ available_space(h[found_node]) = available_space(h[node])
          /\ i < Len(l)
       THEN IF i + 1 >= Len(l)
            THEN [err |-> "IndexError", i |-> NoneIdx]
            ELSE _index_loop(h, l, node, i + 1)
       ELSE [err |-> "none", i |-> IF found_node = node THEN i ELSE NoneIdx]

_index(h, l, node) ==
    LET i == find_node(h, l, available_space(h[node]))
    IN IF i = NoneIdx THEN [err |-> "none", i |-> NoneIdx]
       ELSE _index_loop(h, l, node, i)

\* one of the two while loops of insert: follow previous_node (dir = "left")
\* or next_node (dir = "right") over nodes that are not enabled, collecting
\* the list positions _index reports for them
Link(h, n, dir) == IF dir = "left" THEN h[n].previous_node ELSE h[n].next_node

RECURSIVE traverse(_, _, _, _, _, _)
traverse(h, l, edge, dir, indexes, visited) ==
    LET nb == Link(h, edge, dir)
    IN IF nb # None /\ h[nb].is_enabled = FALSE
       THEN LET found_node_i == _index(h, l, nb)
            IN IF found_node_i.err # "none"
               THEN [err |-> found_node_i.err, edge |-> nb,
                     indexes |-> indexes, visited |-> visited]
               ELSE traverse(h, l, nb, dir,
                             IF found_node_i.i # NoneIdx
                             THEN indexes \cup {found_node_i.i} ELSE indexes,
                             visited \cup {nb})
       ELSE [err |-> "none", edge |-> edge,
             indexes |-> indexes, visited |-> visited]

\* the list comprehension that drops the positions in indexes
RECURSIVE drop_indexes(_, _, _)
drop_indexes(l, indexes, i) ==
    IF i >= Len(l) THEN <<>>
    ELSE (IF i \in indexes THEN <<>> ELSE <<l[i + 1]>>)
             \o drop_indexes(l, indexes, i + 1)

\* faulty variant: the node before the run keeps its link to the left edge
fix_left_no_backlink(h, node, left_edge) ==
    IF left_edge = node THEN h
    ELSE [h EXCEPT ![node].previous_node = h[left_edge].previous_node,
                   ![node].start_index = h[left_edge].start_index]

fix_left(h, node, left_edge) ==
    IF left_edge = node THEN h
    ELSE LET p == h[left_edge].previous_node
             h1 == IF p # None THEN [h EXCEPT ![p].next_node = node] ELSE h
         IN [h1 EXCEPT ![node].previous_node = p,
                       ![node].start_index = h1[left_edge].start_index]

fix_right(h, node, right_edge) ==
    IF right_edge = node THEN h
    ELSE LET n == h[right_edge].next_node
             h1 == IF n # None THEN [h EXCEPT ![n].previous_node = node] ELSE h
         IN [h1 EXCEPT ![node].next_node = n,
                       ![node].end_index = h1[right_edge].end_index]

\* _DisabledNodesList.insert: the heap and the list it leaves, the error it
\* raised if any (an exception leaves what was done before it), and the
\* nodes it combined into node
insert(h, l, node) ==
    LET index == _bisect(h, l, available_space(h[node]))
        l1 == InsertAt(l, index, node)
        left == traverse(h, l1, node, "left", {}, {})
        right == traverse(h, l1, node, "right", left.indexes, left.visited)
    IN IF left.err # "none"
       THEN [heap |-> h, disabled_nodes |-> l1, err |-> left.err, combined |-> {}]
       ELSE IF right.err # "none"
       THEN [heap |-> h, disabled_nodes |-> l1, err |-> right.err, combined |-> {}]
       ELSE [heap |-> fix_right(fix_left(h, node, left.edge), node, right.edge),
             disabled_nodes |-> drop_indexes(l1, right.indexes, 0),
             err |-> "none",
             combined |-> right.visited]

\* _DisabledNodesList.remove
list_remove(h, l, node) ==
    LET node_index == _index(h, l, node)
    IN IF node_index.err # "none"
       THEN [disabled_nodes |-> l, err |-> node_index.err]
       ELSE IF node_index.i = NoneIdx
       THEN [disabled_nodes |-> l, err |-> "ValueError"]
       ELSE [disabled_nodes |-> RemoveAt(l, node_index.i), err |-> "none"]

\* _DisabledNodesList.pop
list_pop(l, index) == RemoveAt(l, index)

\* ----------------------------------------------------- MetadataController
\* The controller's objects as one value; the operators below map it to the
\* value after the call, with the error raised (err) and the result (ret).
Bind(m, key, node) ==
    [k \in (DOMAIN m) \cup {key} |-> IF k = key THEN node ELSE m[k]]
Unbind(m, key) == [k \in (DOMAIN m) \ {key} |-> m[k]]

NoRet == <<>>

Controller ==
    [heap |-> heap, disabled_nodes |-> disabled_nodes, absorbed |-> absorbed,
     file_size |-> file_size, key_to_node |-> key_to_node,
     metadata_last_node |-> metadata_last_node, last_node |-> last_node,
     err |-> "none", ret |-> NoRet]

_add_new_node(c, key, value_size) ==
    LET index == find_node(c.heap, c.disabled_nodes, value_size)
        new == Len(c.heap) + 1
    IN IF index # NoneIdx
       THEN LET node == c.disabled_nodes[index + 1]
            IN [c EXCEPT !.disabled_nodes = list_pop(c.disabled_nodes, index),
                         !.key_to_node = Bind(c.key_to_node, key, node),
                         !.heap[node].value_size = value_size,
                         !.heap[node].is_enabled = TRUE]
       ELSE IF c.metadata_last_node = None
       THEN \* "First node": assigns the controller's last_node, not the
            \* metadata's
            [c EXCEPT !.heap = Append(c.heap,
                          ValueNode(0, value_size, value_size,
                                    c.metadata_last_node, None, TRUE)),
                      !.last_node = new,
                      !.file_size = c.file_size + value_size,
                      !.key_to_node = Bind(c.key_to_node, key, new)]
       ELSE LET h1 == Append(c.heap,
                          ValueNode(c.file_size, c.file_size + value_size,
                                    value_size, c.metadata_last_node, None, TRUE))
                h2 == [h1 EXCEPT ![c.metadata_last_node].next_node = new]
            IN [c EXCEPT !.heap = h2,
                         !.metadata_last_node = new,
                         !.file_size = c.file_size + value_size,
                         !.key_to_node =
                             IF c.last_node = None THEN c.key_to_node
                             ELSE Bind(c.key_to_node, key, c.last_node),
                         !.err = IF c.last_node = None
                                 THEN "AttributeError" ELSE "none"]

\* faulty variant: the node stops being enabled but is never inserted in the list
_disable_node_unlisted(c, node) ==
    [c EXCEPT !.heap[node].is_enabled = FALSE]

_disable_node(c, node) ==
    LET h1 == [c.heap EXCEPT ![node].is_enabled = FALSE]
        r == insert(h1, c.disabled_nodes, node)
    IN [c EXCEPT !.heap = r.heap,
                 !.disabled_nodes = r.disabled_nodes,
                 !.absorbed = c.absorbed \cup r.combined,
                 !.err = r.err]

\* faulty variant: a known key is always relocated
set_always_relocates(c, key, value_size) ==
    IF key \in DOMAIN c.key_to_node
    THEN LET d == _disable_node(c, c.key_to_node[key])
         IN IF d.err # "none" THEN d
            ELSE _add_new_node(d, key, value_size)
    ELSE _add_new_node(c, key, value_size)

\* set: the operation type, then the match statement
OperationType(c, key, value_size) ==
    IF key \in DOMAIN c.key_to_node
    THEN IF value_size > available_space(c.heap[c.key_to_node[key]])
         THEN "RELOCATE" ELSE "SET_VALUE"
    ELSE "ADD_NEW"

set(c, key, value_size) ==
    LET op_type == OperationType(c, key, value_size)
    IN IF op_type = "SET_VALUE"
       THEN [c EXCEPT !.heap[c.key_to_node[key]].value_size = value_size]
       ELSE IF op_type = "ADD_NEW"
       THEN _add_new_node(c, key, value_size)
       ELSE LET d == _disable_node(c, c.key_to_node[key])
            IN IF d.err # "none" THEN d
               ELSE _add_new_node(d, key, value_size)

get(c, key) ==
    IF key \notin DOMAIN c.key_to_node
    THEN [c EXCEPT !.err = "KeyError"]
    ELSE LET node == c.heap[c.key_to_node[key]]
         IN [c EXCEPT !.ret = <<node.start_index,
                                 node.start_index + node.value_size>>]

\* faulty variant: the file is cut by the size of the removed value
remove_shrinks_file(c, key) ==
    IF key \notin DOMAIN c.key_to_node
    THEN [c EXCEPT !.err = "KeyError"]
    ELSE LET node == c.key_to_node[key]
             d == _disable_node(
                      [c EXCEPT !.key_to_node = Unbind(c.key_to_node, key)],
                      node)
         IN [d EXCEPT !.file_size = @ - c.heap[node].value_size]

\* faulty variant: removing an unknown key does nothing and raises nothing
remove_unknown_ignored(c, key) ==
    IF key \notin DOMAIN c.key_to_node
    THEN c
    ELSE _disable_node([c EXCEPT !.key_to_node = Unbind(c.key_to_node, key)],
                       c.key_to_node[key])

\* faulty variant: the key stays in the key map
remove_keeps_key(c, key) ==
    IF key \notin DOMAIN c.key_to_node
    THEN [c EXCEPT !.err = "KeyError"]
    ELSE _disable_node(c, c.key_to_node[key])

remove(c, key) ==
    IF key \notin DOMAIN c.key_to_node
    THEN [c EXCEPT !.err = "KeyError"]
    ELSE _disable_node([c EXCEPT !.key_to_node = Unbind(c.key_to_node, key)],
                       c.key_to_node[key])

\* --------------------------------------------------------- PersistentDict
\* An asyncio.Lock: acquire() returns at once when the lock is free and has
\* no waiters, and otherwise queues the caller until a release() wakes it;
\* release() frees the lock and wakes the first waiter.
NewLock == [locked |-> FALSE, waiters |-> <<>>, woken |-> {}]

lock_free(L) == ~L.locked /\ L.waiters = <<>>
lock_take(L) == [L EXCEPT !.locked = TRUE]
lock_wait(L, t) == [L EXCEPT !.waiters = Append(@, t)]
\* faulty variant: release() frees the lock and wakes nobody
lock_release_no_wakeup(L) ==
    [L EXCEPT !.locked = FALSE]

lock_release(L) ==
    [L EXCEPT !.locked = FALSE,
              !.woken = IF L.waiters # <<>> THEN @ \cup {Head(L.waiters)}
                        ELSE @]

\* PersistentDict(StringIO(""))
NewPersistentDict ==
    [_r |-> NewLock, _g |-> NewLock, _b |-> 0,
     _file |-> [closed |-> FALSE, content |-> <<>>],
     _is_file_closed |-> FALSE,
     _data |-> <<>>]

NewHist == [last_write |-> <<>>, ever_set |-> {}, close_called |-> FALSE]

\* The object, the coroutines and the call in progress as one value: t calls
\* op(key, value), is at pc, and the call ends with err and ret.
Dict ==
    [pd |-> pd, tasks |-> tasks, hist |-> hist,
     t |-> 0, op |-> "none", key |-> 0, value |-> NoValue,
     pc |-> "idle", err |-> "none", ret |-> NoValue]

\* One step of the call; blocked says that it cannot go on by itself.
Goto(d, pc) == [d |-> [d EXCEPT !.pc = pc], blocked |-> FALSE]
Raise(d, err) == [d |-> [d EXCEPT !.pc = "done", !.err = err], blocked |-> TRUE]
Blocked(d) == [d |-> d, blocked |-> TRUE]

\* await lock.acquire(), then go on at pc; waiting parks the call at wait_pc
Acquire(d, lock, pc, wait_pc) ==
    IF lock_free(d.pd[lock])
    THEN Goto([d EXCEPT !.pd[lock] = lock_take(@)], pc)
    ELSE Blocked([d EXCEPT !.pd[lock] = lock_wait(@, d.t),
                           !.pc = wait_pc, !.err = "pending"])

ensure_file_is_open(d) ==
    IF d.pd._is_file_closed
    THEN Raise(d, "DatabaseClosedError")
    ELSE Goto(d, IF d.op = "get" THEN "begin_read" ELSE "begin_write")

\* truncate, seek, json.dump and flush on self._file
rewrite_file(d) ==
    IF d.pd._file.closed
    THEN Raise(d, "ValueError")
    ELSE Goto([d EXCEPT !.pd._file.content = d.pd._data], "end_write")

pd_get(d) ==
    Goto([d EXCEPT !.ret = IF d.key \in DOMAIN d.pd._data
                           THEN d.pd._data[d.key] ELSE NoValue],
         "end_read")

\* faulty variant: the file is rewritten but the value never reaches self._data
pd_set_unstored(d) ==
    LET w == rewrite_file(d)
    IN IF w.d.err # "none" THEN w
       ELSE [w EXCEPT !.d.hist.last_write = <<d.key, d.value>>,
                      !.d.hist.ever_set = @ \cup {d.key}]

pd_set(d) ==
    LET w == rewrite_file([d EXCEPT !.pd._data = Bind(@, d.key, d.value)])
    IN IF w.d.err # "none" THEN w
       ELSE [w EXCEPT !.d.hist.last_write = <<d.key, d.value>>,
                      !.d.hist.ever_set = @ \cup {d.key}]

pd_remove(d) ==
    IF d.key \notin DOMAIN d.pd._data
    THEN Raise(d, "KeyError")
    ELSE LET w == rewrite_file([d EXCEPT !.pd._data = Unbind(@, d.key)])
         IN IF w.d.err # "none" THEN w
            ELSE [w EXCEPT !.d.hist.last_write = <<d.key, NoValue>>]

\* _begin_read after self._r is held: count the reader, the first one takes
\* self._g
begin_read_count(d) ==
    Goto([d EXCEPT !.pd._b = @ + 1],
         IF d.pd._b + 1 = 1 THEN "begin_read_g" ELSE "begin_read_release")

\* _end_read after self._r is held: the last reader releases self._g
end_read_count(d) ==
    LET b == d.pd._b - 1
        d1 == [d EXCEPT !.pd._b = b]
    IN IF b = 0 /\ ~d.pd._g.locked
       THEN Raise(d1, "RuntimeError")
       ELSE Goto([d1 EXCEPT !.pd._g = IF b = 0 THEN lock_release(@) ELSE @,
                            !.pd._r = lock_release(@)],
                 "done")

pd_step(d) ==
    CASE d.pc = "call" -> ensure_file_is_open(d)
      [] d.pc = "begin_read" ->
             Acquire(d, "_r", "begin_read_count", "begin_read_wait_r")
      [] d.pc = "begin_read_count" -> begin_read_count(d)
      [] d.pc = "begin_read_g" ->
             Acquire(d, "_g", "begin_read_release", "begin_read_wait_g")
      [] d.pc = "begin_read_release" ->
             Goto([d EXCEPT !.pd._r = lock_release(@)], "get")
      [] d.pc = "get" -> pd_get(d)
      [] d.pc = "end_read" ->
             Acquire(d, "_r", "end_read_count", "end_read_wait_r")
      [] d.pc = "end_read_count" -> end_read_count(d)
      [] d.pc = "begin_write" -> Acquire(d, "_g", d.op, "begin_write_wait_g")
      [] d.pc = "set" -> pd_set(d)
      [] d.pc = "remove" -> pd_remove(d)
      [] d.pc = "end_write" ->
             Goto([d EXCEPT !.pd._g = lock_release(@)], "done")
      [] OTHER -> Blocked(d)   \* done, or waiting for a lock

\* a coroutine runs until it has to wait or has finished
RECURSIVE pd_run(_)
pd_run(d) ==
    LET s == pd_step(d)
    IN IF s.blocked THEN s.d ELSE pd_run(s.d)

\* coroutine t calls op(key, value): the call runs to its end, or parks t at
\* the lock it waits for
pd_call(d, t, op, key, value) ==
    LET r == pd_run([d EXCEPT !.t = t, !.op = op, !.key = key,
                              !.value = value, !.pc = "call"])
    IN [r EXCEPT !.tasks[t] = IF r.pc = "done" THEN "idle" ELSE r.pc]

close(d) ==
    IF ~d.pd._file.closed
    THEN [d EXCEPT !.pd._file.closed = TRUE, !.pd._data = <<>>,
                   !.hist.last_write = <<>>, !.hist.close_called = TRUE,
                   !.op = "close"]
    ELSE [d EXCEPT !.hist.close_called = TRUE, !.op = "close"]

InstallDict(d) ==
    /\ pd' = d.pd
    /\ tasks' = d.tasks
    /\ hist' = d.hist
    /\ outcome' = [op |-> d.op, err |-> d.err]
    /\ UNCHANGED <<heap, disabled_nodes, absorbed, file_size, key_to_node,
                   metadata_last_node, last_node>>

InitDictVars ==
    /\ pd = NewPersistentDict
    /\ tasks = [t \in Tasks |-> "idle"]
    /\ hist = NewHist

\* ------------------------------------------- specification: the controller
Install(c, op) ==
    /\ heap' = c.heap
    /\ disabled_nodes' = c.disabled_nodes
    /\ absorbed' = c.absorbed
    /\ file_size' = c.file_size
    /\ key_to_node' = c.key_to_node
    /\ metadata_last_node' = c.metadata_last_node
    /\ last_node' = c.last_node
    /\ outcome' = [op |-> op, err |-> c.err]
    /\ UNCHANGED pdvars

\* MetadataController(StringIO("")): _Metadata() and an empty list
Init ==
    /\ heap = <<>>
    /\ disabled_nodes = <<>>
    /\ absorbed = {}
    /\ file_size = 0
    /\ key_to_node = <<>>
    /\ metadata_last_node = None
    /\ last_node = None
    /\ outcome = [op |-> "init", err |-> "none"]
    /\ InitDictVars

Set(key, value_size) ==
    \E c \in {set(Controller, key, value_size)} :
        /\ Len(c.heap) <= MaxNodes
        /\ Install(c, "set")

Get(key) ==
    \E c \in {get(Controller, key)} : Install(c, "get")

Remove(key) ==
    \E c \in {remove(Controller, key)} : Install(c, "remove")

Next ==
    \/ \E key \in Keys, value_size \in Sizes : Set(key, value_size)
    \/ \E key \in Keys : Get(key)
    \/ \E key \in Keys : Remove(key)

Spec == Init /\ [][Next]_vars

\* ------------------------------ specification: the list of disabled nodes
\* _DisabledNodesList driven directly, as the tests drive it, over a chain of
\* ChainLen linked nodes that tile [0, total) and start enabled.
RECURSIVE SumTo(_, _)
SumTo(sizes, i) == IF i = 0 THEN 0 ELSE sizes[i] + SumTo(sizes, i - 1)

ChainOf(sizes) ==
    [i \in 1 .. ChainLen |->
        ValueNode(SumTo(sizes, i - 1), SumTo(sizes, i), 0,
                  IF i = 1 THEN None ELSE i - 1,
                  IF i = ChainLen THEN None ELSE i + 1,
                  TRUE)]

InitIndex ==
    /\ \E sizes \in [1 .. ChainLen -> 0 .. MaxRegion] : heap = ChainOf(sizes)
    /\ disabled_nodes = <<>>
    /\ absorbed = {}
    /\ file_size = 0
    /\ key_to_node = <<>>
    /\ metadata_last_node = None
    /\ last_node = None
    /\ outcome = [op |-> "init", err |-> "none"]
    /\ InitDictVars

InList(l, node) == \E j \in 1 .. Len(l) : l[j] = node

InChain(node) == node \in (1 .. Len(heap)) \ absorbed

\* insert(node), reached as _disable_node reaches it: a node of the chain
\* stops being enabled and is inserted
DisableNode(node) ==
    /\ InChain(node)
    /\ heap[node].is_enabled
    /\ \E c \in {_disable_node(Controller, node)} :
           Install(c, "disable")

\* remove(node) for any node, listed or not; the caller that takes a node
\* out of the list enables it, as _add_new_node does with the node it pops
ListRemove(node) ==
    /\ node \in 1 .. Len(heap)
    /\ \E r \in {list_remove(heap, disabled_nodes, node)} :
           Install([Controller EXCEPT
                        !.disabled_nodes = r.disabled_nodes,
                        !.heap[node].is_enabled =
                            IF r.err = "none" THEN TRUE ELSE @,
                        !.err = r.err],
                   "remove")

\* pop(index) for a valid position, the popped node enabled likewise
ListPop(index) ==
    /\ index \in 0 .. (Len(disabled_nodes) - 1)
    /\ Install([Controller EXCEPT
                    !.disabled_nodes = list_pop(disabled_nodes, index),
                    !.heap[disabled_nodes[index + 1]].is_enabled = TRUE,
                    !.ret = <<disabled_nodes[index + 1]>>],
               "pop")

NextIndex ==
    \/ \E node \in 1 .. ChainLen : DisableNode(node)
    \/ \E node \in 1 .. ChainLen : ListRemove(node)
    \/ \E index \in 0 .. (ChainLen - 1) : ListPop(index)

SpecIndex == InitIndex /\ [][NextIndex]_vars

\* --------------------------------------- specification: the PersistentDict
\* Coroutines on one event loop: a coroutine that is called runs until it
\* returns, raises, or has to wait for a lock; acquire() on a free lock does
\* not suspend, so a call that finds the locks free runs to its end.  close()
\* runs between the calls.
Call(t, op, key, value) ==
    /\ tasks[t] = "idle"
    /\ \E d \in {pd_call(Dict, t, op, key, value)} : InstallDict(d)

Close == \E d \in {close(Dict)} : InstallDict(d)

InitDict ==
    /\ heap = <<>>
    /\ disabled_nodes = <<>>
    /\ absorbed = {}
    /\ file_size = 0
    /\ key_to_node = <<>>
    /\ metadata_last_node = None
    /\ last_node = None
    /\ outcome = [op |-> "init", err |-> "none"]
    /\ InitDictVars

NextDict ==
    \/ \E t \in Tasks, key \in Keys : Call(t, "get", key, NoValue)
    \/ \E t \in Tasks, key \in Keys, value \in Values : Call(t, "set", key, value)
    \/ \E t \in Tasks, key \in Keys : Call(t, "remove", key, NoValue)
    \/ Close

SpecDict == InitDict /\ [][NextDict]_vars

\* --------------------------------------------- specification: the RWLock
\* Coroutines use one RWLock through reader_locked() and writer_locked();
\* the body of the async with block may suspend, so other coroutines run
\* while one is inside its section.  A coroutine runs without interruption
\* from one suspension to the next.  In this specification pd is the RWLock
\* object and tasks[t] is where coroutine t is suspended.
NewRWLock == [_r |-> NewLock, _g |-> NewLock, _b |-> 0]

\* the future of waiter t has its result: t leaves the queue and locks
lock_resume(L, t) ==
    [L EXCEPT !.locked = TRUE,
              !.waiters = SelectSeq(@, LAMBDA w : w # t),
              !.woken = @ \ {t}]

RW(p, pc, err) == [pd |-> p, pc |-> pc, err |-> err]

\* _begin_read after self._g is held
begin_read_release(p) ==
    RW([p EXCEPT !._r = lock_release(@)], "reading", "none")

\* _begin_read after self._r is held
begin_read_locked(p, t) ==
    LET p1 == [p EXCEPT !._b = @ + 1]
    IN IF p1._b = 1
       THEN IF lock_free(p1._g)
            THEN begin_read_release([p1 EXCEPT !._g = lock_take(@)])
            ELSE RW([p1 EXCEPT !._g = lock_wait(@, t)],
                    "begin_read_wait_g", "none")
       ELSE begin_read_release(p1)

_begin_read(p, t) ==
    IF lock_free(p._r)
    THEN begin_read_locked([p EXCEPT !._r = lock_take(@)], t)
    ELSE RW([p EXCEPT !._r = lock_wait(@, t)], "begin_read_wait_r", "none")

\* _end_read after self._r is held
end_read_locked(p) ==
    LET p1 == [p EXCEPT !._b = @ - 1]
    IN IF p1._b = 0 /\ ~p1._g.locked
       THEN RW(p1, "idle", "RuntimeError")
       ELSE RW([p1 EXCEPT !._g = IF p1._b = 0 THEN lock_release(@) ELSE @,
                          !._r = lock_release(@)],
               "idle", "none")

_end_read(p, t) ==
    IF lock_free(p._r)
    THEN end_read_locked([p EXCEPT !._r = lock_take(@)])
    ELSE RW([p EXCEPT !._r = lock_wait(@, t)], "end_read_wait_r", "none")

\* faulty variant: the writer enters without taking self._g
_begin_write_unlocked(p, t) ==
    RW(p, "writing", "none")

_begin_write(p, t) ==
    IF lock_free(p._g)
    THEN RW([p EXCEPT !._g = lock_take(@)], "writing", "none")
    ELSE RW([p EXCEPT !._g = lock_wait(@, t)], "begin_write_wait_g", "none")

_end_write(p, t) ==
    IF ~p._g.locked
    THEN RW(p, "idle", "RuntimeError")
    ELSE RW([p EXCEPT !._g = lock_release(@)], "idle", "none")

\* coroutine t goes on after the acquire() it was suspended in
rw_resume(p, t, pc) ==
    CASE pc = "begin_read_wait_r" ->
             begin_read_locked([p EXCEPT !._r = lock_resume(@, t)], t)
      [] pc = "begin_read_wait_g" ->
             begin_read_release([p EXCEPT !._g = lock_resume(@, t)])
      [] pc = "end_read_wait_r" ->
             end_read_locked([p EXCEPT !._r = lock_resume(@, t)])
      [] pc = "begin_write_wait_g" ->
             RW([p EXCEPT !._g = lock_resume(@, t)], "writing", "none")

InstallRW(r, t, op) ==
    /\ pd' = r.pd
    /\ tasks' = [tasks EXCEPT ![t] = r.pc]
    /\ outcome' = [op |-> op, err |-> r.err]
    /\ UNCHANGED <<heap, disabled_nodes, absorbed, file_size, key_to_node,
                   metadata_last_node, last_node, hist>>

InitRW ==
    /\ heap = <<>>
    /\ disabled_nodes = <<>>
    /\ absorbed = {}
    /\ file_size = 0
    /\ key_to_node = <<>>
    /\ metadata_last_node = None
    /\ last_node = None
    /\ outcome = [op |-> "init", err |-> "none"]
    /\ pd = NewRWLock
    /\ tasks = [t \in LockTasks |-> "idle"]
    /\ hist = NewHist

BeginRead(t) ==
    /\ tasks[t] = "idle"
    /\ \E r \in {_begin_read(pd, t)} : InstallRW(r, t, "_begin_read")

EndRead(t) ==
    /\ tasks[t] = "reading"
    /\ \E r \in {_end_read(pd, t)} : InstallRW(r, t, "_end_read")

BeginWrite(t) ==
    /\ tasks[t] = "idle"
    /\ \E r \in {_begin_write(pd, t)} : InstallRW(r, t, "_begin_write")

EndWrite(t) ==
    /\ tasks[t] = "writing"
    /\ \E r \in {_end_write(pd, t)} : InstallRW(r, t, "_end_write")

Resume(t) ==
    /\ tasks[t] \in {"begin_read_wait_r", "begin_read_wait_g",
                     "end_read_wait_r", "begin_write_wait_g"}
    /\ t \in pd._r.woken \cup pd._g.woken
    /\ \E r \in {rw_resume(pd, t, tasks[t])} : InstallRW(r, t, "resume")

NextRW ==
    \/ \E t \in LockTasks : BeginRead(t)
    \/ \E t \in LockTasks : EndRead(t)
    \/ \E t \in LockTasks : BeginWrite(t)
    \/ \E t \in LockTasks : EndWrite(t)
    \/ \E t \in LockTasks : Resume(t)

SpecRW == InitRW /\ [][NextRW]_vars

\* The event loop runs every coroutine whose future has its result, and a
\* coroutine inside a section leaves it; nothing makes a coroutine enter.
FairSpecRW ==
    /\ SpecRW
    /\ \A t \in LockTasks :
          /\ WF_vars(Resume(t))
          /\ WF_vars(EndRead(t))
          /\ WF_vars(EndWrite(t))


\* ------------------------------------------------ specification: loading
\* _Metadata.load and PersistentDict.__init__ read a text stream with
\* json.load.  A stream is its content and its position; the content is a
\* string over a small alphabet in which some strings are JSON documents
\* ("{}" with optional spaces, a number made of the digit 1) and the others
\* do not decode.  In this specification pd is the stream and what was
\* loaded from it.
Alphabet == {"{", "}", "1", " "}
Streams == UNION {[1 .. n -> Alphabet] : n \in 0 .. MaxStreamLen}

NewStream(content) == [content |-> content, pos |-> 0]

\* TextIOBase.read(): the rest of the stream, which is then at its end
stream_read(f) ==
    [data |-> SubSeq(f.content, f.pos + 1, Len(f.content)),
     f |-> [f EXCEPT !.pos = Len(f.content)]]

RECURSIVE lstrip(_)
lstrip(s) ==
    IF s # <<>> /\ Head(s) = " " THEN lstrip(Tail(s)) ELSE s

RECURSIVE rstrip(_)
rstrip(s) ==
    IF s # <<>> /\ s[Len(s)] = " " THEN rstrip(SubSeq(s, 1, Len(s) - 1))
    ELSE s

\* json.loads: spaces around the document are skipped
json_loads(s) ==
    LET doc == rstrip(lstrip(s))
    IN IF /\ Len(doc) >= 2
          /\ doc[1] = "{"
          /\ doc[Len(doc)] = "}"
          /\ \A i \in 2 .. (Len(doc) - 1) : doc[i] = " "
       THEN [err |-> "none", value |-> "dict"]
       ELSE IF doc # <<>> /\ \A i \in 1 .. Len(doc) : doc[i] = "1"
       THEN [err |-> "none", value |-> "int"]
       ELSE [err |-> "JSONDecodeError", value |-> "none"]

\* json.load(fp) is json.loads(fp.read())
json_load(f) ==
    LET r == stream_read(f)
    IN [f |-> r.f] @@ json_loads(r.data)

Loaded(f, state, err) == [stream |-> f, state |-> state, err |-> err]

\* _Metadata().load(metadata_io)
load(f) ==
    LET j == json_load(f)
    IN IF j.err = "JSONDecodeError"
       THEN LET r == stream_read(j.f)
            IN IF r.data # <<>> THEN Loaded(r.f, "failed", "Exception")
               ELSE Loaded(r.f, "empty", "none")
       ELSE IF j.value = "dict" THEN Loaded(j.f, "empty", "none")
       ELSE Loaded(j.f, "failed", "TypeError")

\* PersistentDict(file): the try statement and the assert
PersistentDict__init__(f) ==
    LET j == json_load(f)
    IN IF j.err = "JSONDecodeError"
       THEN LET r == stream_read(j.f)
            IN IF r.data # <<>> THEN Loaded(r.f, "failed", "Exception")
               ELSE Loaded(r.f, "empty", "none")
       ELSE IF j.value = "dict" THEN Loaded(j.f, "empty", "none")
       ELSE Loaded(j.f, "failed", "AssertionError")

InstallLoad(l, op) ==
    /\ pd' = [stream |-> l.stream, state |-> l.state]
    /\ outcome' = [op |-> op, err |-> l.err]
    /\ UNCHANGED <<heap, disabled_nodes, absorbed, file_size, key_to_node,
                   metadata_last_node, last_node, tasks, hist>>

InitLoad ==
    /\ heap = <<>>
    /\ disabled_nodes = <<>>
    /\ absorbed = {}
    /\ file_size = 0
    /\ key_to_node = <<>>
    /\ metadata_last_node = None
    /\ last_node = None
    /\ outcome = [op |-> "init", err |-> "none"]
    /\ \E content \in Streams :
          pd = [stream |-> NewStream(content), state |-> "unloaded"]
    /\ tasks = [t \in Tasks |-> "idle"]
    /\ hist = NewHist

LoadMetadata ==
    /\ pd.state = "unloaded"
    /\ \E l \in {load(pd.stream)} : InstallLoad(l, "load")

OpenDict ==
    /\ pd.state = "unloaded"
    /\ \E l \in {PersistentDict__init__(pd.stream)} : InstallLoad(l, "__init__")

NextLoad ==
    \/ LoadMetadata
    \/ OpenDict

SpecLoad == InitLoad /\ [][NextLoad]_vars


\* ============================================================ properties
ChainNodes == (1 .. Len(heap)) \ absorbed
ListedNodes == {disabled_nodes[j] : j \in 1 .. Len(disabled_nodes)}
Capacity(node) == available_space(heap[node])

\* C1: after every set or remove the nodes tile [0, file_size): linked
\* neighbours agree (n.next.prev = n, n.prev.next = n, n.end = n.next.start),
\* no two nodes overlap, there is one head, at 0, and one tail, whose end is
\* file_size.
C1_ChainTilesFile ==
    /\ \A n \in ChainNodes :
          /\ heap[n].start_index <= heap[n].end_index
          /\ heap[n].next_node # None =>
                /\ heap[n].next_node \in ChainNodes
                /\ heap[heap[n].next_node].previous_node = n
                /\ heap[n].end_index = heap[heap[n].next_node].start_index
          /\ heap[n].previous_node # None =>
                /\ heap[n].previous_node \in ChainNodes
                /\ heap[heap[n].previous_node].next_node = n
    /\ \A a, b \in ChainNodes :
          a # b => \/ heap[a].end_index <= heap[b].start_index
                   \/ heap[b].end_index <= heap[a].start_index
    /\ Cardinality({n \in ChainNodes : heap[n].previous_node = None}) <= 1
    /\ Cardinality({n \in ChainNodes : heap[n].next_node = None}) <= 1
    /\ \A n \in ChainNodes :
          /\ heap[n].previous_node = None => heap[n].start_index = 0
          /\ heap[n].next_node = None => heap[n].end_index = file_size
    /\ ChainNodes = {} => file_size = 0

\* C2: every key of the key map points at an enabled node, and every enabled
\* node is the image of exactly one key.
C2_KeysAndLiveNodes ==
    /\ \A k \in DOMAIN key_to_node :
          /\ key_to_node[k] \in ChainNodes
          /\ heap[key_to_node[k]].is_enabled
    /\ \A n \in ChainNodes :
          heap[n].is_enabled =>
              Cardinality({k \in DOMAIN key_to_node : key_to_node[k] = n}) = 1

C2_Witness ==
    /\ outcome.op = "set" /\ outcome.err = "none"
    /\ Cardinality(DOMAIN key_to_node) = 2
    /\ \E n \in ChainNodes : ~heap[n].is_enabled

\* C3: the entries of the list of disabled nodes are exactly the nodes that
\* are not enabled, each listed once.
C3_ListIsDisabledNodes ==
    /\ ListedNodes = {n \in ChainNodes : ~heap[n].is_enabled}
    /\ Cardinality(ListedNodes) = Len(disabled_nodes)

C3_Witness ==
    /\ outcome.op = "remove" /\ outcome.err = "none"
    /\ Len(disabled_nodes) = 2
    /\ \E n \in ChainNodes : heap[n].is_enabled

\* C4: after any sequence of insert, remove and pop the list is sorted
\* ascending by available_space, ties allowed.
C4_ListSorted ==
    \A i, j \in 1 .. Len(disabled_nodes) :
        i < j => Capacity(disabled_nodes[i]) <= Capacity(disabled_nodes[j])

\* C5: after any set or remove no two entries of the list are spatially
\* adjacent: the region of one never ends where the region of another starts.
C5_NoAdjacentEntries ==
    \A i, j \in 1 .. Len(disabled_nodes) :
        i # j => heap[disabled_nodes[i]].end_index
                     # heap[disabled_nodes[j]].start_index

\* the run of linked nodes that are not enabled around node, node included
RECURSIVE Edge(_, _, _)
Edge(h, n, dir) ==
    LET nb == Link(h, n, dir)
    IN IF nb # None /\ ~h[nb].is_enabled THEN Edge(h, nb, dir) ELSE n

RECURSIVE RunFrom(_, _, _)
RunFrom(h, n, right_edge) ==
    IF n = right_edge \/ h[n].next_node = None THEN {n}
    ELSE {n} \cup RunFrom(h, h[n].next_node, right_edge)

\* C6: insert(node) for a linked node that is not enabled leaves one entry
\* for the maximal run of adjacent nodes that are not enabled around it: node
\* itself, from the start of the leftmost to the end of the rightmost node of
\* the run, and no other node of the run stays listed.
C6_InsertFusesRun ==
    [][\A node \in 1 .. ChainLen :
          DisableNode(node) =>
              LET h == [heap EXCEPT ![node].is_enabled = FALSE]
                  left_edge == Edge(h, node, "left")
                  right_edge == Edge(h, node, "right")
                  run == RunFrom(h, left_edge, right_edge)
              IN /\ outcome'.err = "none"
                 /\ Cardinality({j \in 1 .. Len(disabled_nodes') :
                                    disabled_nodes'[j] = node}) = 1
                 /\ heap'[node].start_index = heap[left_edge].start_index
                 /\ heap'[node].end_index = heap[right_edge].end_index
                 /\ \A m \in run \ {node} : ~InList(disabled_nodes', m)
      ]_vars

\* C7: find_node(min_size) finds an entry of the lowest available_space that
\* is at least min_size, and finds none exactly when no entry is that large.
C7_FindIsBestFit ==
    \A min_size \in 0 .. (ChainLen * MaxRegion + 2) :
        LET i == find_node(heap, disabled_nodes, min_size)
            fits == {j \in 1 .. Len(disabled_nodes) :
                        Capacity(disabled_nodes[j]) >= min_size}
        IN IF fits = {} THEN i = NoneIdx
           ELSE /\ i # NoneIdx
                /\ (i + 1) \in fits
                /\ \A j \in fits : Capacity(disabled_nodes[i + 1])
                                       <= Capacity(disabled_nodes[j])

\* C8: remove(node) for a node that is not listed raises ValueError, whatever
\* the list holds and whatever the node's available_space, and removes
\* nothing.
C8_RemoveAbsentRaisesValueError ==
    [][\A node \in 1 .. ChainLen :
          (ListRemove(node) /\ ~InList(disabled_nodes, node)) =>
              /\ outcome'.err = "ValueError"
              /\ disabled_nodes' = disabled_nodes
      ]_vars

\* C9: a get(k) that follows a completed set(k, v) with no write in between
\* returns v, one that follows a completed remove(k) returns None, and a get
\* of a key that was never set returns None.
C9_GetReturnsLastWrite ==
    \A t \in Tasks, k \in Keys :
        tasks[t] = "idle" =>
            LET d == pd_call(Dict, t, "get", k, NoValue)
            IN (d.pc = "done" /\ d.err = "none") =>
                   /\ (hist.last_write # <<>> /\ hist.last_write[1] = k) =>
                          d.ret = hist.last_write[2]
                   /\ k \notin hist.ever_set => d.ret = NoValue

C9_Witness ==
    /\ outcome.op = "get" /\ outcome.err = "none"
    /\ hist.last_write # <<>>
    /\ hist.last_write[2] \in Values
    /\ \E t \in Tasks :
          /\ tasks[t] = "idle"
          /\ pd_call(Dict, t, "get", hist.last_write[1], NoValue).ret
                 = hist.last_write[2]

\* C10: once close() has been called, a call of get, set or remove raises
\* DatabaseClosedError and leaves the locks, self._data and the file as they
\* were.
C10_ClosedCallsFailFast ==
    hist.close_called =>
        \A t \in Tasks, op \in {"get", "set", "remove"},
           k \in Keys, v \in Values :
            tasks[t] = "idle" =>
                LET d == pd_call(Dict, t, op, k, v)
                IN d.err = "DatabaseClosedError" /\ d.pd = pd

InSection(t) == tasks[t] \in {"reading", "writing"}

\* C11: no coroutine is inside a write section while another coroutine is
\* inside a read section or a write section.
C11_WriterExcludesAll ==
    \A t, u \in DOMAIN tasks :
        (t # u /\ tasks[t] = "writing") => ~InSection(u)

C11_Witness ==
    /\ \E t \in DOMAIN tasks : tasks[t] = "writing"
    /\ \E u \in DOMAIN tasks : tasks[u] = "begin_read_wait_g"
    /\ \E w \in DOMAIN tasks : tasks[w] = "begin_read_wait_r"

\* C12: get(key) for a key that is not in the key map returns None and does
\* not raise, in every state, also after the key was removed.
C12_GetUnknownReturnsNone ==
    \A key \in Keys \ DOMAIN key_to_node :
        LET c == get(Controller, key)
        IN c.err = "none" /\ c.ret = NoRet

\* C13: remove(key) for a key that is not in the key map raises KeyError and
\* leaves the key map, the nodes, the list of disabled nodes and file_size
\* as they were.
C13_RemoveUnknownRaises ==
    \A key \in Keys \ DOMAIN key_to_node :
        LET c == remove(Controller, key)
        IN /\ c.err = "KeyError"
           /\ c.key_to_node = key_to_node
           /\ c.heap = heap
           /\ c.disabled_nodes = disabled_nodes
           /\ c.file_size = file_size

C13_Witness ==
    /\ outcome.op = "remove" /\ outcome.err = "KeyError"
    /\ DOMAIN key_to_node # {}
    /\ Len(disabled_nodes) > 0

\* C14: loading an empty stream gives the empty state without an error, and
\* loading a stream that is not empty and does not decode raises; it never
\* gives the empty state.
C14_CorruptStreamIsFatal ==
    outcome.op \in {"load", "__init__"} =>
        /\ pd.stream.content = <<>> =>
              (outcome.err = "none" /\ pd.state = "empty")
        /\ (/\ pd.stream.content # <<>>
            /\ json_loads(pd.stream.content).err = "JSONDecodeError") =>
              (outcome.err = "Exception" /\ pd.state = "failed")

\* C15: no set, get or remove makes file_size smaller than it was.
C15_FileSizeNeverShrinks ==
    [][file_size' >= file_size]_vars

C15_Witness ==
    /\ outcome.op = "remove" /\ outcome.err = "none"
    /\ DOMAIN key_to_node = {}
    /\ file_size > 0

\* remove(k1) has given c1 and freed node; then set(k2, v) for a new key k2,
\* where v fits node and no listed node of a strictly smaller available_space
\* fits v
ReuseCase(c1, node, k2, v) ==
    /\ k2 \notin DOMAIN c1.key_to_node
    /\ c1.err = "none"
    /\ v <= available_space(c1.heap[node])
    /\ \A j \in 1 .. Len(c1.disabled_nodes) :
          LET space == available_space(c1.heap[c1.disabled_nodes[j]])
          IN ~(space >= v /\ space < available_space(c1.heap[node]))

\* C16: in that case k2 is bound to the very node that k1 had, the node's
\* start_index and end_index stay, and file_size does not grow.
C16_ReusesFreedNode ==
  [](\A k1 \in DOMAIN key_to_node :
        \A c1 \in {remove(Controller, k1)} :
            \A k2 \in Keys, v \in Sizes :
                ReuseCase(c1, key_to_node[k1], k2, v) =>
                    \E c2 \in {set(c1, k2, v)} :
                        LET node == key_to_node[k1]
                        IN /\ c2.err = "none"
                           /\ k2 \in DOMAIN c2.key_to_node
                           /\ c2.key_to_node[k2] = node
                           /\ c2.heap[node].is_enabled
                           /\ c2.heap[node].start_index
                                  = c1.heap[node].start_index
                           /\ c2.heap[node].end_index = c1.heap[node].end_index
                           /\ c2.file_size = c1.file_size)

C16_Witness ==
    /\ outcome.op = "remove" /\ outcome.err = "none"
    /\ Len(disabled_nodes) >= 1
    /\ \E k1 \in DOMAIN key_to_node, k2 \in Keys, v \in Sizes :
          \E c1 \in {remove(Controller, k1)} :
              /\ ReuseCase(c1, key_to_node[k1], k2, v)
              /\ \E j \in 1 .. Len(disabled_nodes) :
                    Capacity(disabled_nodes[j]) > Capacity(key_to_node[k1])
              /\ set(c1, k2, v).key_to_node[k2] = key_to_node[k1]

\* C17: a set that appends a node places it at the file_size before the
\* call, with end_index = start_index + value_size, enabled, linked after the
\* node that was the tail, and advances file_size by value_size; only the
\* first node ever appended starts at 0 with no previous_node.
C17_AppendsAtFileSize ==
    [][\A key \in Keys, value_size \in Sizes :
          (/\ Set(key, value_size)
           /\ Len(heap') = Len(heap) + 1
           /\ outcome'.err = "none") =>
              LET new == Len(heap')
                  prev == heap'[new].previous_node
              IN /\ heap'[new].start_index = file_size
                 /\ heap'[new].end_index = file_size + value_size
                 /\ heap'[new].is_enabled
                 /\ heap'[new].next_node = None
                 /\ (prev = None) <=> (Len(heap) = 0)
                 /\ prev # None =>
                       /\ heap[prev].next_node = None
                       /\ heap'[prev].next_node = new
                 /\ key_to_node'[key] = new
                 /\ file_size' = file_size + value_size
      ]_vars

\* C18: set(key, value_size) for a known key whose node has that much
\* available_space changes that node's value_size and nothing else; so a
\* second set(key, value_size) changes nothing.
C18_InPlaceSetFrame ==
  [](\A key \in Keys, value_size \in Sizes :
        \A c1 \in {set(Controller, key, value_size)} :
            /\ (/\ key \in DOMAIN key_to_node
                /\ value_size <= Capacity(key_to_node[key])) =>
                   c1 = [Controller EXCEPT
                            !.heap[key_to_node[key]].value_size = value_size]
            /\ c1.err = "none" => set(c1, key, value_size) = c1)

C18_Witness ==
    /\ outcome.op = "set" /\ outcome.err = "none"
    /\ Len(disabled_nodes) >= 1
    /\ \E key \in DOMAIN key_to_node :
          LET node == heap[key_to_node[key]]
          IN /\ node.value_size < node.end_index - node.start_index
             /\ \E other \in DOMAIN key_to_node : other # key

\* node is listed and another listed node has the same available_space
ListedWithTie(node) ==
    /\ InList(disabled_nodes, node)
    /\ \E j \in 1 .. Len(disabled_nodes) :
          /\ disabled_nodes[j] # node
          /\ Capacity(disabled_nodes[j]) = Capacity(node)

\* C19: when several listed nodes have the same available_space, remove(node)
\* for one of them takes out that very node and leaves the other entries in
\* the order they had.
C19_RemoveAmongTies ==
    [][\A node \in 1 .. ChainLen :
          (ListRemove(node) /\ ListedWithTie(node)) =>
              /\ outcome'.err = "none"
              /\ disabled_nodes'
                     = SelectSeq(disabled_nodes, LAMBDA m : m # node)
      ]_vars

\* C20: insert(node) keeps node itself as the entry of its run and leaves
\* the links consistent: node.previous_node is what the leftmost node of the
\* run had, and that node's next_node is node; node.next_node is what the
\* rightmost node of the run had, and that node's previous_node is node; no
\* node outside the combined ones links to a combined one.  An insert that
\* raises has changed no link.
C20_CoalescingKeepsLinks ==
    [][\A node \in 1 .. ChainLen :
          DisableNode(node) =>
              LET h == [heap EXCEPT ![node].is_enabled = FALSE]
                  left_edge == Edge(h, node, "left")
                  right_edge == Edge(h, node, "right")
                  p == h[left_edge].previous_node
                  n == h[right_edge].next_node
              IN IF outcome'.err # "none" THEN heap' = h
                 ELSE /\ Cardinality({j \in 1 .. Len(disabled_nodes') :
                                         disabled_nodes'[j] = node}) = 1
                      /\ absorbed' = absorbed
                             \cup (RunFrom(h, left_edge, right_edge) \ {node})
                      /\ heap'[node].previous_node = p
                      /\ p # None => heap'[p].next_node = node
                      /\ heap'[node].next_node = n
                      /\ n # None => heap'[n].previous_node = node
                      /\ \A m \in (1 .. Len(heap')) \ absorbed' :
                            /\ heap'[m].previous_node \notin absorbed'
                            /\ heap'[m].next_node \notin absorbed'
      ]_vars

C20_Witness ==
    /\ outcome.op = "disable" /\ outcome.err = "none"
    /\ Cardinality(absorbed) >= 2
    /\ \E node \in ListedNodes \ absorbed :
          LET p == heap[node].previous_node
              n == heap[node].next_node
          IN /\ p # None /\ n # None
             /\ heap[p].is_enabled /\ heap[n].is_enabled
             /\ heap[p].next_node = node /\ heap[n].previous_node = node
             /\ heap[node].end_index - heap[node].start_index >= 2

\* the range get(key) returns, as <<start, end>>, for a key of the key map
Range(key) == get(Controller, key).ret

RangesDisjoint(a, b) ==
    \/ a[1] = a[2]
    \/ b[1] = b[2]
    \/ a[2] <= b[1]
    \/ b[2] <= a[1]

\* C21: the ranges [start, start + value_size) that get returns for two
\* distinct keys of the key map do not overlap, and each range is within its
\* node: value_size is at most the node's available_space.
C21_RangesDisjoint ==
    /\ \A k1, k2 \in DOMAIN key_to_node :
          k1 # k2 => RangesDisjoint(Range(k1), Range(k2))
    /\ \A key \in DOMAIN key_to_node :
          /\ Range(key)[1] = heap[key_to_node[key]].start_index
          /\ Range(key)[2] - Range(key)[1] <= Capacity(key_to_node[key])

\* C22: a get, set or remove that has returned or raised has released the
\* locks it took: when no call is in progress self._g and self._r are free,
\* and the next call of get, set or remove is admitted and runs to its end.
C22_LocksFreeAfterCall ==
    (\A t \in DOMAIN tasks : tasks[t] = "idle") =>
        /\ ~pd._g.locked
        /\ ~pd._r.locked
        /\ \A t \in DOMAIN tasks, op \in {"get", "set", "remove"},
              k \in Keys, v \in Values :
                pd_call(Dict, t, op, k, v).pc = "done"

WaitingRead(t) == tasks[t] \in {"begin_read_wait_r", "begin_read_wait_g"}
WaitingWrite(t) == tasks[t] = "begin_write_wait_g"
NoReader == pd._b = 0

\* C23 as stated: every coroutine waiting in _begin_write or in _begin_read
\* is eventually admitted to its section.
C23_WaitersAdmitted ==
    \A t \in LockTasks :
        /\ WaitingRead(t) ~> (tasks[t] = "reading")
        /\ WaitingWrite(t) ~> (tasks[t] = "writing")

\* C23 as amended: every coroutine waiting in _begin_read is eventually
\* admitted, and a coroutine waiting in _begin_write is eventually admitted
\* if the count self._b of readers in the section is zero again and again;
\* readers that overlap for ever keep the writer waiting.
C23_ReadersAdmittedWritersWhenNoReader ==
    \A t \in LockTasks :
        /\ WaitingRead(t) ~> (tasks[t] = "reading")
        /\ ([]<>NoReader) => (WaitingWrite(t) ~> (tasks[t] = "writing"))

C23_Witness ==
    /\ outcome.op = "resume" /\ outcome.err = "none"
    /\ \E t \in DOMAIN tasks : tasks[t] = "writing"
    /\ \E u \in DOMAIN tasks : WaitingRead(u)

====
